---- MODULE Spec2Model ----
(***************************************************************************)
(* State-machine model of pywssocks/server.py: the token registry of       *)
(* WSSocksServer, its WebSocket sessions, the per-port SOCKS supervisors   *)
(* and their request handlers, and the SocketManager.                      *)
(*                                                                         *)
(* asyncio runs one task at a time and switches only at an await that      *)
(* really suspends, so every action below is the code between two such     *)
(* suspension points.  Acquiring an asyncio.Lock that nobody holds does    *)
(* not suspend, and no coroutine of the server suspends while it holds a   *)
(* token lock, so the locked sections are inside single actions.           *)
(*                                                                         *)
(* Python's Optional[x] is modelled as a set of at most one element:       *)
(* None is {} and a value v is {v}.                                        *)
(***************************************************************************)
EXTENDS Integers, Sequences, FiniteSets, TLC

VARIABLES
    socks_wait_client, \* self._socks_wait_client, fixed at construction
    loop,            \* self._loop is set (serve() has started)
    free,            \* PortPool: the ports that are free
    tokens,          \* self._tokens: reverse token -> port
    token_locks,     \* self._token_locks: the tokens that have a lock
    socks_auth,      \* self._socks_auth: token -> <<username, password>>
    pending_tokens,  \* self._pending_tokens: list of tokens added before serve()
    pending_tasks,   \* tasks loop.create_task(_handle_pending_token(t)) not yet run
    forward_tokens,  \* self._forward_tokens
    token_clients,   \* self._token_clients: token -> list of client ids
    token_indexes,   \* self._token_indexes: token -> round-robin index
    clients,         \* self._clients: the client ids of reverse clients
    forward_clients, \* self._forward_clients: the client ids of forward clients
    socks_tasks,     \* self._socks_tasks: port -> supervisor task
    task,            \* the supervisor tasks (_run_socks_server), in creation order
    handler,         \* the live SOCKS request handlers (socks_handler_tasks)
    sockets,         \* SocketManager._sockets: port -> [ts, refs]
    timers,          \* SocketManager._cleanup_tasks: pending cleanups per port
    sess,            \* the WebSocket sessions (_handle_websocket), by client number
    ret,             \* the last admin call and what it returned
    selects,         \* per token: start index and picks since the client list last changed
    closed,          \* the listen sockets that were closed, in the order of the closes
    stopped,         \* serve() has ended and SocketManager.close() has run
    replies          \* per handler: what its SOCKS connection got ("relay", "refused 3")

vars == <<socks_wait_client, loop, free, tokens, token_locks, socks_auth, pending_tokens, pending_tasks,
          forward_tokens, token_clients, token_indexes, clients, forward_clients,
          socks_tasks, task, handler, sockets, timers, sess, ret, selects,
          closed, stopped, replies>>

\* The registry of the admin API: what add_*_token and remove_token own.
registry == <<tokens, token_locks, socks_auth, pending_tokens, pending_tasks,
              forward_tokens, free>>

\* The client registries and the supervisor-task map.
client_maps == <<token_clients, token_indexes, clients, forward_clients, socks_tasks, task>>

-----------------------------------------------------------------------------
\* Bounds of the model.
MaxPort == 2
MaxSessions == 3
MaxTasks == 2
MaxHandlers == 1
MaxSelects == 5
MaxPending == 1
MaxTimers == 2
MaxSockets == 3
MaxRefs == 2

Tokens == {"t1", "t2", "t3"}
PoolPorts == 1..MaxPort
Sessions == 1..MaxSessions

None == {}
Some(x) == {x}
The(o) == CHOOSE x \in o : TRUE

\* Python truthiness of an Optional[int], as in "if port:".
Truthy(o) == o # None /\ o # Some(0)

\* The arguments the admin API is called with.
TokenArgs == {None} \cup {Some(t) : t \in Tokens}
PortArgs == {None} \cup {Some(p) : p \in 0..MaxPort}
UserArgs == {None, Some("user")}
PassArgs == {None, Some("pass")}

\* dict helpers
Del(f, k) == [x \in (DOMAIN f) \ {k} |-> f[x]]
Put(f, k, v) == [x \in (DOMAIN f) \cup {k} |-> IF x = k THEN v ELSE f[x]]
Range(s) == {s[i] : i \in DOMAIN s}
RemoveFirst(s, x) ==
    IF x \notin Range(s) THEN s
    ELSE LET i == CHOOSE j \in DOMAIN s : s[j] = x /\ \A m \in 1..(j-1) : s[m] # x
         IN  SubSeq(s, 1, i-1) \o SubSeq(s, i+1, Len(s))
Filter(s, x) == SelectSeq(s, LAMBDA e : e # x)

\* The least number that is not a key of f: the name of a new task.
FreshId(f) ==
    CHOOSE k \in 1..(Cardinality(DOMAIN f) + 1) :
        k \notin DOMAIN f /\ \A i \in 1..(k-1) : i \in DOMAIN f

NoRet == [op |-> "none", token |-> None, res |-> <<None, None>>, known |-> FALSE]
NoSelects == [start |-> 0, picks |-> <<>>]

-----------------------------------------------------------------------------
\* PortPool.get(port): a preferred port is handed out only if it is free; with
\* no preference any free port is; None when there is none.
PortPoolGet(pool, port) ==
    IF port # None
    THEN IF The(port) \in pool THEN {port} ELSE {None}
    ELSE IF pool = {} THEN {None} ELSE {Some(p) : p \in pool}

\* PortPool.put(port): the port is free again; putting a free port changes nothing.
PortPoolPut(pool, port) == pool \cup ({port} \cap PoolPorts)

-----------------------------------------------------------------------------
Init ==
    /\ socks_wait_client \in BOOLEAN
    /\ loop = FALSE
    /\ free = PoolPorts
    /\ tokens = <<>>
    /\ token_locks = {}
    /\ socks_auth = <<>>
    /\ pending_tokens = <<>>
    /\ pending_tasks = <<>>
    /\ forward_tokens = {}
    /\ token_clients = <<>>
    /\ token_indexes = <<>>
    /\ clients = {}
    /\ forward_clients = {}
    /\ socks_tasks = <<>>
    /\ task = <<>>
    /\ handler = <<>>
    /\ sockets = <<>>
    /\ timers = [p \in PoolPorts |-> 0]
    /\ sess = [s \in Sessions |->
                 [pc |-> "idle", token |-> None, cid |-> 0, kind |-> "none", out |-> <<>>,
                  conn |-> "none"]]
    /\ ret = NoRet
    /\ selects = [t \in Tokens |-> NoSelects]
    /\ closed = <<>>
    /\ stopped = FALSE
    /\ replies = [h \in 1..MaxHandlers |-> "none"]

-----------------------------------------------------------------------------
\* The sessions whose WebSocket a scheduled ws.close(code, reason) closes: a
\* session that has ended has a closed WebSocket, and closing it again does nothing.
CloseAll(ss, S, how) ==
    [s \in Sessions |->
        IF s \in S /\ ss[s].pc # "done" THEN [ss[s] EXCEPT !.out = Append(@, how)] ELSE ss[s]]

\* Mutant of Cancel: remove_token forgets the task without cancelling it.
Cancel_forgotten(tk, k) == tk

\* Task.cancel() on the supervisor task k, which self._socks_tasks then forgets.
\* A running task gets the request when it next runs.  A task that has not run
\* yet never enters the coroutine's body, and a task that is done is not
\* affected: neither does anything any more, and its record is dropped.
Cancel(tk, k) ==
    IF k \notin DOMAIN tk THEN tk
    ELSE IF tk[k].pc \in {"created", "done"} THEN Del(tk, k)
    ELSE [tk EXCEPT ![k].cancelled = TRUE]

\* Mutant of AlreadyReverse: the early return for a known token is missing.
AlreadyReverse_never(t) == FALSE

\* add_reverse_token: "if token in self._tokens"
AlreadyReverse(t) == t \in DOMAIN tokens

\* Mutant of add_reverse_refused: the token's lock is created before the port
\* is known to be available.
add_reverse_refused_keeps_lock(t) ==
    /\ token_locks' = token_locks \cup {t}
    /\ UNCHANGED <<tokens, socks_auth, pending_tokens, pending_tasks>>

\* add_reverse_token: "else: return None, None" leaves the registry as it was.
add_reverse_refused(t) ==
    UNCHANGED <<tokens, token_locks, socks_auth, pending_tokens, pending_tasks>>

\* Mutant of return_port: remove_token forgets to give the port back.
return_port_dropped(port) == free' = free

\* remove_token: "self._socks_port_pool.put(port)"
return_port(port) == free' = PortPoolPut(free, port)

\* "".join(random.choice(chars) for _ in range(16)): a string of 16 random
\* characters, which is a token that is not in use.
Generated(t) == t \notin DOMAIN tokens /\ t \notin forward_tokens

\* add_reverse_token(token, port, username, password), returning res
add_reverse_token(token, port, username, password, res) ==
    \E gen \in Tokens :
      LET t == IF token = None THEN gen ELSE The(token) IN
      /\ IF token = None THEN Generated(gen) ELSE gen = The(token)
      /\ IF AlreadyReverse(t)
         THEN /\ res = <<Some(t), Some(tokens[t])>>
              /\ UNCHANGED <<free, tokens, token_locks, socks_auth, pending_tokens,
                             pending_tasks>>
         ELSE \E got \in PortPoolGet(free, port) :
              /\ res = IF Truthy(got) THEN <<Some(t), got>> ELSE <<None, None>>
              /\ free' = free \ got
              /\ IF Truthy(got)
                 THEN /\ tokens' = Put(tokens, t, The(got))
                      /\ token_locks' = token_locks \cup {t}
                      /\ socks_auth' = IF username # None /\ password # None
                                       THEN Put(socks_auth, t, <<The(username), The(password)>>)
                                       ELSE socks_auth
                      /\ IF loop
                         THEN \* the task _handle_pending_token(t) does nothing
                              \* when socks_wait_client is set
                              /\ socks_wait_client \/ Len(pending_tasks) < MaxPending
                              /\ pending_tasks' = IF socks_wait_client THEN pending_tasks
                                                  ELSE Append(pending_tasks, t)
                              /\ UNCHANGED pending_tokens
                         ELSE /\ pending_tokens' = Append(pending_tokens, t)
                              /\ UNCHANGED pending_tasks
                 ELSE add_reverse_refused(t)
      /\ UNCHANGED <<socks_wait_client, loop, forward_tokens, token_clients, token_indexes,
                     clients, forward_clients, socks_tasks, task, handler, sockets, timers,
                     sess, selects,
                     closed, stopped, replies>>

\* add_forward_token(token), returning res
add_forward_token(token, res) ==
    \E gen \in Tokens :
      LET t == IF token = None THEN gen ELSE The(token) IN
      /\ IF token = None THEN Generated(gen) ELSE gen = The(token)
      /\ res = <<Some(t), None>>
      /\ forward_tokens' = forward_tokens \cup {t}
      /\ UNCHANGED <<socks_wait_client, loop, free, tokens, token_locks, socks_auth,
                     pending_tokens, pending_tasks, token_clients, token_indexes, clients,
                     forward_clients, socks_tasks, task, handler, sockets, timers, sess,
                     selects,
                     closed, stopped, replies>>

\* Mutant of remove_reverse: the token's client list is left in the map.
remove_reverse_keeps_clients(token) ==
    LET port == tokens[token]
        had  == token \in DOMAIN token_clients
        cids == IF had THEN Range(token_clients[token]) ELSE {}
    IN
    /\ sess' = IF loop THEN CloseAll(sess, cids, "close 1000 Token removed") ELSE sess
    /\ clients' = clients \ cids
    /\ token_clients' = token_clients
    /\ tokens' = Del(tokens, token)
    /\ token_locks' = token_locks \ {token}
    /\ token_indexes' = Del(token_indexes, token)
    /\ socks_auth' = Del(socks_auth, token)
    /\ pending_tokens' = RemoveFirst(pending_tokens, token)
    /\ IF port \in DOMAIN socks_tasks
       THEN /\ task' = Cancel(task, socks_tasks[port])
            /\ socks_tasks' = Del(socks_tasks, port)
       ELSE UNCHANGED <<task, socks_tasks>>
    /\ return_port(port)
    /\ selects' = [selects EXCEPT ![token] = NoSelects]
    /\ UNCHANGED <<forward_tokens, forward_clients>>

\* remove_token(token), the branch of a reverse token
remove_reverse(token) ==
    LET port == tokens[token]
        had  == token \in DOMAIN token_clients
        cids == IF had THEN Range(token_clients[token]) ELSE {}
    IN
    /\ sess' = IF loop THEN CloseAll(sess, cids, "close 1000 Token removed") ELSE sess
    /\ clients' = clients \ cids
    /\ token_clients' = Del(token_clients, token)
    /\ tokens' = Del(tokens, token)
    /\ token_locks' = token_locks \ {token}
    /\ token_indexes' = Del(token_indexes, token)
    /\ socks_auth' = Del(socks_auth, token)
    /\ pending_tokens' = RemoveFirst(pending_tokens, token)
    /\ IF port \in DOMAIN socks_tasks
       THEN /\ task' = Cancel(task, socks_tasks[port])
            /\ socks_tasks' = Del(socks_tasks, port)
       ELSE UNCHANGED <<task, socks_tasks>>
    /\ return_port(port)
    /\ selects' = [selects EXCEPT ![token] = NoSelects]
    /\ UNCHANGED <<forward_tokens, forward_clients>>

\* remove_token(token), the branch of a forward token
remove_forward(token) ==
    /\ sess' = IF loop THEN CloseAll(sess, forward_clients, "close 1000 Token removed")
                       ELSE sess
    /\ forward_clients' = {}
    /\ forward_tokens' = forward_tokens \ {token}
    /\ UNCHANGED <<free, tokens, token_locks, socks_auth, pending_tokens, token_clients,
                   token_indexes, clients, socks_tasks, task, selects>>

\* remove_token(token), returning res
remove_token(token, res) ==
    /\ res = (token \in DOMAIN tokens \/ token \in forward_tokens)
    /\ IF token \notin DOMAIN tokens /\ token \notin forward_tokens
       THEN /\ UNCHANGED <<free, tokens, token_locks, socks_auth, pending_tokens,
                           forward_tokens, token_clients, token_indexes, clients,
                           forward_clients, socks_tasks, task, sess, selects>>
       ELSE /\ IF token \in DOMAIN tokens
               THEN remove_reverse(token)
               ELSE remove_forward(token)
    /\ UNCHANGED <<socks_wait_client, loop, pending_tasks, handler, sockets, timers,
                   closed, stopped, replies>>

\* What add_reverse_token and add_forward_token can return: a token, with a
\* port or without, or (None, None).
AddResults == ({None} \cup {Some(t) : t \in Tokens}) \X ({None} \cup {Some(p) : p \in PoolPorts})

-----------------------------------------------------------------------------
\* asyncio.create_task(self._run_socks_server(token, port)) stored in
\* self._socks_tasks[port]: the pair <<socks_tasks, task>> afterwards.
SpawnSupervisor(st, tk, token, port) ==
    <<Put(st, port, FreshId(tk)),
      Put(tk, FreshId(tk),
          [token |-> token, port |-> port, pc |-> "created", cancelled |-> FALSE,
           sock |-> 0])>>

\* Mutant of handle_pending_token: socks_wait_client is not looked at.
handle_pending_token_always(st, tk, token) ==
    IF token \notin token_locks THEN <<st, tk>>
    ELSE IF token \in DOMAIN tokens /\ Truthy(Some(tokens[token]))
            /\ tokens[token] \notin DOMAIN st
         THEN SpawnSupervisor(st, tk, token, tokens[token])
         ELSE <<st, tk>>

\* _handle_pending_token(token), on the pair <<socks_tasks, task>>.  The lookup
\* self._token_locks[token] raises KeyError for a token that was removed.
handle_pending_token(st, tk, token) ==
    IF socks_wait_client THEN <<st, tk>>
    ELSE IF token \notin token_locks THEN <<st, tk>>
    ELSE IF token \in DOMAIN tokens /\ Truthy(Some(tokens[token]))
            /\ tokens[token] \notin DOMAIN st
         THEN SpawnSupervisor(st, tk, token, tokens[token])
         ELSE <<st, tk>>

\* serve(): "for token in self._pending_tokens: await self._handle_pending_token(token)"
RECURSIVE DrainPending(_, _, _)
DrainPending(toks, st, tk) ==
    IF toks = <<>> THEN <<st, tk>>
    ELSE LET r == handle_pending_token(st, tk, Head(toks))
         IN  DrainPending(Tail(toks), r[1], r[2])

\* serve(), up to the point where the WebSocket listener is up.
serve ==
    /\ ~loop
    /\ loop' = TRUE
    /\ LET r == DrainPending(pending_tokens, socks_tasks, task) IN
       /\ DOMAIN r[2] \subseteq 1..MaxTasks
       /\ socks_tasks' = r[1]
       /\ task' = r[2]
    /\ pending_tokens' = <<>>
    /\ UNCHANGED <<socks_wait_client, free, tokens, token_locks, socks_auth, pending_tasks,
                   forward_tokens, token_clients, token_indexes, clients, forward_clients,
                   handler, sockets, timers, sess, ret, selects,
                   closed, stopped, replies>>

\* The task add_reverse_token created with loop.create_task(_handle_pending_token(t)).
pending_task_runs ==
    /\ pending_tasks # <<>>
    /\ LET r == handle_pending_token(socks_tasks, task, Head(pending_tasks)) IN
       /\ DOMAIN r[2] \subseteq 1..MaxTasks
       /\ socks_tasks' = r[1]
       /\ task' = r[2]
    /\ pending_tasks' = Tail(pending_tasks)
    /\ UNCHANGED <<socks_wait_client, loop, free, tokens, token_locks, socks_auth,
                   pending_tokens, forward_tokens, token_clients, token_indexes, clients,
                   forward_clients, handler, sockets, timers, sess, ret, selects,
                   closed, stopped, replies>>

-----------------------------------------------------------------------------
\* The first frame a WebSocket client sends.
JsonValues == {"true", "false", "null", "1", "0"}
AuthFrames == [kind : {"auth"}, token : TokenArgs, reverse : JsonValues]
Frames == AuthFrames
          \cup {[kind |-> k, token |-> None, reverse |-> "null"] :
                   k \in {"not_json", "not_object", "other_type"}}

\* Python's "reverse == True" and "reverse == False" on a parsed JSON value:
\* the numbers 1 and 0 compare equal to True and False.
EqTrue(v) == v \in {"true", "1"}
EqFalse(v) == v \in {"false", "0"}

\* _handle_websocket: "reverse == True and token in self._tokens"
ReverseAuthOk(f) == EqTrue(f.reverse) /\ f.token # None /\ The(f.token) \in DOMAIN tokens

\* Mutant of ForwardAuthOk: the token is not looked up.
ForwardAuthOk_any_token(f) == EqFalse(f.reverse)

\* _handle_websocket: "reverse == False and token in self._forward_tokens"
ForwardAuthOk(f) == EqFalse(f.reverse) /\ f.token # None /\ The(f.token) \in forward_tokens

\* dict.get(token, 0) on self._token_indexes
IndexOf(token) == IF token \in DOMAIN token_indexes THEN token_indexes[token] ELSE 0

\* Mutant of get_next_websocket: the cursor is not advanced before it is used.
get_next_websocket_no_advance(token) ==
    IF token \notin DOMAIN token_clients \/ token_clients[token] = <<>>
    THEN <<IndexOf(token), 0>>
    ELSE LET cl == token_clients[token]
             idx == IndexOf(token) % Len(cl)
         IN  <<idx, cl[idx + 1]>>

\* _get_next_websocket(token) once the token's lock is taken: the new index
\* and the client it selects; <<index, 0>> stands for None.
get_next_websocket(token) ==
    IF token \notin DOMAIN token_clients \/ token_clients[token] = <<>>
    THEN <<IndexOf(token), 0>>
    ELSE LET cl == token_clients[token]
             idx == (IndexOf(token) + 1) % Len(cl)
         IN  <<idx, cl[idx + 1]>>

\* Mutant of MayConnect: any authenticated client may ask for a connection.
MayConnect_any(cid) == TRUE

\* _message_dispatcher: "client_id in self._forward_clients"
MayConnect(cid) == cid \in forward_clients

\* Session s is the next connection the server accepts (client ids are fresh).
NextSession(s) == sess[s].pc = "idle" /\ \A i \in 1..(s-1) : sess[i].pc # "idle"

\* _handle_websocket, from the connection to the first suspension after the
\* auth frame was judged.
handle_websocket(s, f) ==
    /\ loop
    /\ NextSession(s)
    /\ IF f.kind \in {"not_json", "not_object"}
       THEN \* json.loads or auth_data.get raises; "except Exception" logs it
            /\ sess' = [sess EXCEPT ![s].pc = "done"]
            /\ UNCHANGED <<token_clients, token_indexes, clients, forward_clients,
                           socks_tasks, task, selects>>
       ELSE IF f.kind # "auth"
       THEN /\ sess' = [sess EXCEPT ![s].pc = "done",
                                    ![s].out = <<"close 1008 Invalid auth message">>]
            /\ UNCHANGED <<token_clients, token_indexes, clients, forward_clients,
                           socks_tasks, task, selects>>
       ELSE IF ReverseAuthOk(f)
       THEN LET t == The(f.token)
                port == tokens[t]
                old == IF t \in DOMAIN token_clients THEN token_clients[t] ELSE <<>>
                r == IF port \notin DOMAIN socks_tasks
                     THEN SpawnSupervisor(socks_tasks, task, t, port)
                     ELSE <<socks_tasks, task>>
            IN
            /\ t \in token_locks
            /\ DOMAIN r[2] \subseteq 1..MaxTasks
            /\ token_clients' = Put(token_clients, t, Append(old, s))
            /\ socks_tasks' = r[1]
            /\ task' = r[2]
            /\ clients' = clients \cup {s}
            /\ sess' = [sess EXCEPT ![s] = [pc |-> "running", token |-> f.token, cid |-> s,
                                            kind |-> "reverse",
                                            out |-> <<"auth_response true">>,
                                            conn |-> "none"]]
            /\ selects' = [selects EXCEPT ![t] = [start |-> IndexOf(t), picks |-> <<>>]]
            /\ UNCHANGED <<token_indexes, forward_clients>>
       ELSE IF ForwardAuthOk(f)
       THEN /\ forward_clients' = forward_clients \cup {s}
            /\ sess' = [sess EXCEPT ![s] = [pc |-> "running", token |-> f.token, cid |-> s,
                                            kind |-> "forward",
                                            out |-> <<"auth_response true">>,
                                            conn |-> "none"]]
            /\ UNCHANGED <<token_clients, token_indexes, clients, socks_tasks, task, selects>>
       ELSE /\ sess' = [sess EXCEPT ![s].pc = "done",
                                    ![s].out = <<"auth_response false",
                                                 "close 1008 Invalid token">>]
            /\ UNCHANGED <<token_clients, token_indexes, clients, forward_clients,
                           socks_tasks, task, selects>>
    /\ UNCHANGED <<socks_wait_client, loop, free, tokens, token_locks, socks_auth,
                   pending_tokens, pending_tasks, forward_tokens, handler, sockets, timers,
                   ret,
                   closed, stopped, replies>>

\* _message_dispatcher on a "connect" frame: a handler for the outbound
\* connection is spawned only if client_id is in self._forward_clients.
message_dispatcher(s) ==
    /\ sess[s].pc = "running"
    /\ sess' = [sess EXCEPT ![s].conn = IF MayConnect(sess[s].cid)
                                        THEN "spawned" ELSE "ignored"]
    /\ UNCHANGED <<socks_wait_client, loop, free, tokens, token_locks, socks_auth,
                   pending_tokens, pending_tasks, forward_tokens, token_clients,
                   token_indexes, clients, forward_clients, socks_tasks, task, handler,
                   sockets, timers, ret, selects,
                   closed, stopped, replies>>

\* Mutant of cleanup_connection: when the token's last client leaves, the
\* token's supervisor is cancelled and forgotten.
cleanup_connection_stops_supervisor(s) ==
    LET t == The(sess[s].token)
        cid == sess[s].cid
        listed == t \in DOMAIN token_clients
        left == IF listed THEN Filter(token_clients[t], cid) ELSE <<>>
        last == listed /\ left = <<>> /\ t \in DOMAIN tokens
                  /\ tokens[t] \in DOMAIN socks_tasks
    IN
    /\ sess[s].pc = "running"
    /\ sess' = [sess EXCEPT ![s].pc = "done"]
    /\ IF listed
       THEN IF left = <<>>
            THEN /\ token_clients' = Del(token_clients, t)
                 /\ token_indexes' = Del(token_indexes, t)
            ELSE /\ token_clients' = Put(token_clients, t, left)
                 /\ UNCHANGED token_indexes
       ELSE UNCHANGED <<token_clients, token_indexes>>
    /\ clients' = clients \ {cid}
    /\ selects' = IF listed /\ left # token_clients[t]
                  THEN [selects EXCEPT ![t] =
                          IF left = <<>> THEN NoSelects
                          ELSE [start |-> IndexOf(t), picks |-> <<>>]]
                  ELSE selects
    /\ IF last
       THEN /\ task' = Cancel(task, socks_tasks[tokens[t]])
            /\ socks_tasks' = Del(socks_tasks, tokens[t])
       ELSE UNCHANGED <<socks_tasks, task>>
    /\ UNCHANGED <<socks_wait_client, loop, free, tokens, token_locks, socks_auth,
                   pending_tokens, pending_tasks, forward_tokens, forward_clients,
                   handler, sockets, timers, ret,
                   closed, stopped, replies>>

\* _cleanup_connection(client_id, token), run when the session ends: the
\* dispatcher or the heartbeat has finished, for whatever reason.
cleanup_connection(s) ==
    LET t == The(sess[s].token)
        cid == sess[s].cid
        listed == t \in DOMAIN token_clients
        left == IF listed THEN Filter(token_clients[t], cid) ELSE <<>>
    IN
    /\ sess[s].pc = "running"
    /\ sess' = [sess EXCEPT ![s].pc = "done"]
    /\ IF listed
       THEN IF left = <<>>
            THEN /\ token_clients' = Del(token_clients, t)
                 /\ token_indexes' = Del(token_indexes, t)
            ELSE /\ token_clients' = Put(token_clients, t, left)
                 /\ UNCHANGED token_indexes
       ELSE UNCHANGED <<token_clients, token_indexes>>
    /\ clients' = clients \ {cid}
    /\ selects' = IF listed /\ left # token_clients[t]
                  THEN [selects EXCEPT ![t] =
                          IF left = <<>> THEN NoSelects
                          ELSE [start |-> IndexOf(t), picks |-> <<>>]]
                  ELSE selects
    /\ UNCHANGED <<socks_wait_client, loop, free, tokens, token_locks, socks_auth,
                   pending_tokens, pending_tasks, forward_tokens, forward_clients,
                   socks_tasks, task, handler, sockets, timers, ret,
                   closed, stopped, replies>>

-----------------------------------------------------------------------------
\* socket.socket(...): a socket object that did not exist before; sk holds the
\* open sockets and closed the others.
NewSocket(sk) == Cardinality(DOMAIN sk) + Len(closed) + 1

\* SocketManager.get_socket(port) when the bind succeeds (or is not needed):
\* an existing entry gets one more reference and keeps its timestamp.
get_socket(sk, port) ==
    IF port \in DOMAIN sk
    THEN Put(sk, port, [sock |-> sk[port].sock, ts |-> sk[port].ts, refs |-> sk[port].refs + 1])
    ELSE Put(sk, port, [sock |-> NewSocket(sk), ts |-> 0, refs |-> 1])

\* Mutant of release_socket: the decremented count is stored as it is.
release_socket_unclamped(sk, tm, port) ==
    IF port \notin DOMAIN sk THEN <<sk, tm>>
    ELSE IF sk[port].refs - 1 <= 0
         THEN <<Put(sk, port, [sock |-> sk[port].sock, ts |-> 1, refs |-> sk[port].refs - 1]),
                [tm EXCEPT ![port] = @ + 1]>>
         ELSE <<Put(sk, port, [sock |-> sk[port].sock, ts |-> 0, refs |-> sk[port].refs - 1]),
                tm>>

\* SocketManager.release_socket(port), on the pair <<sockets, timers>>.  The
\* timestamp of the grace period is loop.time(), a positive number.
release_socket(sk, tm, port) ==
    IF port \notin DOMAIN sk THEN <<sk, tm>>
    ELSE IF sk[port].refs - 1 <= 0
         THEN <<Put(sk, port, [sock |-> sk[port].sock, ts |-> 1, refs |-> 0]),
                [tm EXCEPT ![port] = @ + 1]>>
         ELSE <<Put(sk, port, [sock |-> sk[port].sock, ts |-> 0, refs |-> sk[port].refs - 1]),
                tm>>

\* Mutant of StillInGrace: the reference count is not looked at.
StillInGrace_any_refs(port) == port \in DOMAIN sockets /\ sockets[port].ts > 0

\* _cleanup_socket: "if port not in self._sockets: return" and
\* "if refs == 0 and timestamp > 0"
StillInGrace(port) ==
    port \in DOMAIN sockets /\ sockets[port].refs = 0 /\ sockets[port].ts > 0

\* Mutant of close_and_forget: the socket is closed but its entry is kept.
close_and_keep(port) ==
    /\ closed' = Append(closed, sockets[port].sock)
    /\ sockets' = sockets

\* _cleanup_socket: "await self._close_socket(sock); del self._sockets[port]"
close_and_forget(port) ==
    /\ closed' = Append(closed, sockets[port].sock)
    /\ sockets' = Del(sockets, port)

\* SocketManager._cleanup_socket(port), when its sleep(grace) is over.  The
\* cleanups of a port all sleep the same time, so the one that wakes is the
\* oldest: it is the cleanup of the latest release only if it is the only one.
cleanup_socket(port) ==
    /\ timers[port] > 0
    /\ timers' = [timers EXCEPT ![port] = @ - 1]
    /\ IF StillInGrace(port)
       THEN close_and_forget(port)
       ELSE UNCHANGED <<sockets, closed>>
    /\ UNCHANGED <<socks_wait_client, loop, free, tokens, token_locks, socks_auth,
                   pending_tokens, pending_tasks, forward_tokens, token_clients,
                   token_indexes, clients, forward_clients, socks_tasks, task, handler,
                   sess, ret, selects,
                   stopped, replies>>

\* The sockets of the map in the order of its keys.
RECURSIVE SocketsOf(_)
SocketsOf(sk) ==
    IF DOMAIN sk = {} THEN <<>>
    ELSE LET port == CHOOSE p \in DOMAIN sk : \A q \in DOMAIN sk : p <= q
         IN  <<sk[port].sock>> \o SocketsOf(Del(sk, port))

\* SocketManager.close(): every pending cleanup is cancelled, every socket of
\* the map is closed and its entry deleted; the lock is held throughout.
SocketManagerClose ==
    /\ timers' = [p \in PoolPorts |-> 0]
    /\ closed' = closed \o SocketsOf(sockets)
    /\ sockets' = <<>>

\* serve() is cancelled: leaving "async with serve(...)" stops the WebSocket
\* listener and the finally block runs self._socket_manager.close().  The
\* supervisor tasks are left as they are.
serve_cancelled ==
    /\ loop
    /\ ~stopped
    /\ stopped' = TRUE
    /\ SocketManagerClose
    /\ UNCHANGED <<socks_wait_client, loop, free, tokens, token_locks, socks_auth,
                   pending_tokens, pending_tasks, forward_tokens, token_clients,
                   token_indexes, clients, forward_clients, socks_tasks, task, handler,
                   sess, ret, selects, replies>>

\* The SocketManager called by any user of its API: get_socket(port) that binds
\* or finds the entry, release_socket(port), close().  ret records the call;
\* for release_socket, known says whether the entry was already in grace.
sm_get_socket(port) ==
    /\ port \in DOMAIN sockets => sockets[port].refs < MaxRefs
    /\ sockets' = get_socket(sockets, port)
    /\ sockets'[port].sock <= MaxSockets
    /\ ret' = [op |-> "get_socket", token |-> None,
               res |-> <<None, Some(port)>>, known |-> StillInGrace(port)]
    /\ UNCHANGED <<socks_wait_client, loop, free, tokens, token_locks, socks_auth,
                   pending_tokens, pending_tasks, forward_tokens, token_clients,
                   token_indexes, clients, forward_clients, socks_tasks, task, handler,
                   timers, sess, selects, closed, stopped, replies>>

sm_release_socket(port) ==
    /\ timers[port] < MaxTimers
    /\ LET r == release_socket(sockets, timers, port) IN
       /\ sockets' = r[1]
       /\ timers' = r[2]
    /\ ret' = [op |-> "release_socket", token |-> None,
               res |-> <<None, Some(port)>>, known |-> StillInGrace(port)]
    /\ UNCHANGED <<socks_wait_client, loop, free, tokens, token_locks, socks_auth,
                   pending_tokens, pending_tasks, forward_tokens, token_clients,
                   token_indexes, clients, forward_clients, socks_tasks, task, handler,
                   sess, selects, closed, stopped, replies>>

sm_close ==
    /\ SocketManagerClose
    /\ ret' = [op |-> "close", token |-> None, res |-> <<None, None>>, known |-> FALSE]
    /\ UNCHANGED <<socks_wait_client, loop, free, tokens, token_locks, socks_auth,
                   pending_tokens, pending_tasks, forward_tokens, token_clients,
                   token_indexes, clients, forward_clients, socks_tasks, task, handler,
                   sess, selects, stopped, replies>>

-----------------------------------------------------------------------------
\* The live handlers the supervisor k spawned (its socks_handler_tasks).
HandlersOf(k) == {h \in DOMAIN handler : handler[h].task = k}

\* _run_socks_server: the first step of the task takes the listen socket.
run_socks_server(k) ==
    /\ k \in DOMAIN task
    /\ task[k].pc = "created"
    /\ sockets' = get_socket(sockets, task[k].port)
    /\ task' = [task EXCEPT ![k].pc = "accepting", ![k].sock = sockets'[task[k].port].sock]
    /\ sockets'[task[k].port].sock <= MaxSockets
    /\ UNCHANGED <<socks_wait_client, loop, free, tokens, token_locks, socks_auth,
                   pending_tokens, pending_tasks, forward_tokens, token_clients,
                   token_indexes, clients, forward_clients, socks_tasks, handler, timers,
                   sess, ret, selects,
                   closed, stopped, replies>>

\* _run_socks_server when sock.bind raises in get_socket: "except Exception"
\* logs it and the finally block releases the port, which has no entry.
run_socks_server_bind_error(k) ==
    /\ k \in DOMAIN task
    /\ task[k].pc = "created"
    /\ task[k].port \notin DOMAIN sockets
    /\ task' = [task EXCEPT ![k].pc = "done"]
    /\ LET r == release_socket(sockets, timers, task[k].port) IN
       /\ sockets' = r[1]
       /\ timers' = r[2]
    /\ UNCHANGED <<socks_wait_client, loop, free, tokens, token_locks, socks_auth,
                   pending_tokens, pending_tasks, forward_tokens, token_clients,
                   token_indexes, clients, forward_clients, socks_tasks, handler, sess,
                   ret, selects,
                   closed, stopped, replies>>

\* The accept loop of _run_socks_server takes one connection and spawns its handler.
socks_accept(k, h) ==
    /\ k \in DOMAIN task
    /\ task[k].pc = "accepting"
    /\ ~task[k].cancelled
    /\ h \in 1..MaxHandlers
    /\ h \notin DOMAIN handler
    /\ \A i \in 1..(h-1) : i \in DOMAIN handler
    /\ handler' = Put(handler, h, [task |-> k, token |-> task[k].token, pc |-> "spawned",
                                   cancelled |-> FALSE, ws |-> 0])
    /\ replies' = [replies EXCEPT ![h] = "none"]
    /\ UNCHANGED <<socks_wait_client, loop, free, tokens, token_locks, socks_auth,
                   pending_tokens, pending_tasks, forward_tokens, token_clients,
                   token_indexes, clients, forward_clients, socks_tasks, task, sockets,
                   timers, sess, ret, selects,
                   closed, stopped>>

\* The finally block of _run_socks_server once its handlers are gathered; the
\* task is then done, and self._socks_tasks has forgotten it.
SupervisorReleases(k) ==
    /\ timers[task[k].port] < MaxTimers
    /\ task' = Del(task, k)
    /\ LET r == release_socket(sockets, timers, task[k].port) IN
       /\ sockets' = r[1]
       /\ timers' = r[2]

\* The cancellation reaches _run_socks_server in sock_accept: the finally block
\* cancels every handler and gathers them; with none alive it goes on to release.
run_socks_server_cancelled(k) ==
    /\ k \in DOMAIN task
    /\ task[k].pc = "accepting"
    /\ task[k].cancelled
    /\ handler' = [h \in DOMAIN handler |->
                     IF h \in HandlersOf(k) THEN [handler[h] EXCEPT !.cancelled = TRUE]
                     ELSE handler[h]]
    /\ IF HandlersOf(k) = {}
       THEN SupervisorReleases(k)
       ELSE /\ task' = [task EXCEPT ![k].pc = "draining"]
            /\ UNCHANGED <<sockets, timers>>
    /\ UNCHANGED <<socks_wait_client, loop, free, tokens, token_locks, socks_auth,
                   pending_tokens, pending_tasks, forward_tokens, token_clients,
                   token_indexes, clients, forward_clients, socks_tasks, sess, ret, selects,
                   closed, stopped, replies>>

\* asyncio.gather(*socks_handler_tasks) returns and the socket is released.
run_socks_server_finally(k) ==
    /\ k \in DOMAIN task
    /\ task[k].pc = "draining"
    /\ HandlersOf(k) = {}
    /\ SupervisorReleases(k)
    /\ UNCHANGED <<socks_wait_client, loop, free, tokens, token_locks, socks_auth,
                   pending_tokens, pending_tasks, forward_tokens, token_clients,
                   token_indexes, clients, forward_clients, socks_tasks, handler, sess,
                   ret, selects,
                   closed, stopped, replies>>

-----------------------------------------------------------------------------
\* The handler leaves socks_handler_tasks when it is done (done callback).
HandlerDone(h) == handler' = Del(handler, h)

\* _handle_socks_request from "Use round-robin to get websocket connection" on.
SelectAndRelay(h) ==
    LET t == handler[h].token
        r == get_next_websocket(t)
    IN
    IF t \notin token_locks
    THEN \* self._token_locks[token] raises KeyError: the handler task dies
         /\ HandlerDone(h)
         /\ UNCHANGED <<token_indexes, selects, replies>>
    ELSE IF r[2] = 0
    THEN \* no client: _refuse_socks_request(socks_socket, 3)
         /\ HandlerDone(h)
         /\ replies' = [replies EXCEPT ![h] = "refused 3"]
         /\ UNCHANGED <<token_indexes, selects>>
    ELSE /\ token_indexes' = Put(token_indexes, t, r[1])
         /\ replies' = [replies EXCEPT ![h] = "relay"]
         /\ handler' = [handler EXCEPT ![h].pc = "relay", ![h].ws = r[2]]
         /\ selects' = [selects EXCEPT ![t].picks =
                          IF Len(@) < MaxSelects THEN Append(@, r[2]) ELSE @]

\* _handle_socks_request: the first step of the handler task.
handle_socks_request(h) ==
    /\ h \in DOMAIN handler
    /\ handler[h].pc = "spawned"
    /\ IF handler[h].cancelled
       THEN /\ HandlerDone(h)
            /\ UNCHANGED <<token_indexes, selects, replies>>
       ELSE IF handler[h].token \notin DOMAIN token_clients
       THEN /\ handler' = [handler EXCEPT ![h].pc = "wait"]
            /\ UNCHANGED <<token_indexes, selects, replies>>
       ELSE SelectAndRelay(h)
    /\ UNCHANGED <<socks_wait_client, loop, free, tokens, token_locks, socks_auth,
                   pending_tokens, pending_tasks, forward_tokens, token_clients, clients,
                   forward_clients, socks_tasks, task, sockets, timers, sess, ret,
                   closed, stopped>>

\* The handler wakes from sleep(0.1) in the wait loop and finds a client.
handle_socks_request_found(h) ==
    /\ h \in DOMAIN handler
    /\ handler[h].pc = "wait"
    /\ ~handler[h].cancelled
    /\ handler[h].token \in DOMAIN token_clients
    /\ token_clients[handler[h].token] # <<>>
    /\ SelectAndRelay(h)
    /\ UNCHANGED <<socks_wait_client, loop, free, tokens, token_locks, socks_auth,
                   pending_tokens, pending_tasks, forward_tokens, token_clients, clients,
                   forward_clients, socks_tasks, task, sockets, timers, sess, ret,
                   closed, stopped>>

\* Mutant of wait_is_over: the request is handed to the relay all the same.
wait_is_over_relays(h) == [replies EXCEPT ![h] = "relay"]

\* _handle_socks_request: the else branch of the wait loop,
\* "return await self._refuse_socks_request(socks_socket, 3)"
wait_is_over(h) == [replies EXCEPT ![h] = "refused 3"]

\* The handler ends: the 10 s of the wait loop are over and the request is
\* refused with reply 3, or the relay has finished, or the cancellation has
\* reached the handler.
handle_socks_request_ends(h) ==
    /\ h \in DOMAIN handler
    /\ handler[h].pc \in {"wait", "relay"}
    /\ HandlerDone(h)
    /\ replies' = IF handler[h].pc = "wait" /\ ~handler[h].cancelled
                  THEN wait_is_over(h)
                  ELSE replies
    /\ UNCHANGED <<socks_wait_client, loop, free, tokens, token_locks, socks_auth,
                   pending_tokens, pending_tasks, forward_tokens, token_clients,
                   token_indexes, clients, forward_clients, socks_tasks, task, sockets,
                   timers, sess, ret, selects,
                   closed, stopped>>

-----------------------------------------------------------------------------
\* The admin API called with any arguments; ret records the call and its result.
Admin ==
    \/ \E token \in TokenArgs, port \in PortArgs, username \in UserArgs,
          password \in PassArgs, res \in AddResults :
         /\ add_reverse_token(token, port, username, password, res)
         /\ ret' = [op |-> "add_reverse", token |-> token, res |-> res,
                    known |-> res[1] # None /\ The(res[1]) \in DOMAIN tokens]
    \/ \E token \in TokenArgs, res \in AddResults :
         /\ add_forward_token(token, res)
         /\ ret' = [op |-> "add_forward", token |-> token, res |-> res,
                    known |-> The(res[1]) \in forward_tokens]
    \/ \E token \in Tokens, res \in BOOLEAN :
         /\ remove_token(token, res)
         /\ ret' = [op |-> "remove", token |-> Some(token),
                    res |-> IF res THEN <<Some("True"), None>> ELSE <<Some("False"), None>>,
                    known |-> FALSE]

\* The registry under the admin API, before and after serve() has started, in
\* the default configuration (socks_wait_client=True), where no supervisor is
\* started before a client connects.
InitDefault == Init /\ socks_wait_client

NextAdmin ==
    \/ Admin
    \/ serve

SpecAdmin == InitDefault /\ [][NextAdmin]_vars

-----------------------------------------------------------------------------
\* The tokens the admin uses while the server runs: one for reverse clients
\* and one for forward clients.
ReverseToken == "t1"
ForwardToken == "t2"
ServerTokens == {ReverseToken, ForwardToken}

\* The admin API while the server runs: any free port, no SOCKS credentials;
\* the results are not recorded.
Calls ==
    \/ \E res \in AddResults :
         add_reverse_token(Some(ReverseToken), None, None, None, res) /\ UNCHANGED ret
    \/ \E res \in AddResults :
         add_forward_token(Some(ForwardToken), res) /\ UNCHANGED ret
    \/ \E t \in ServerTokens, res \in BOOLEAN :
         remove_token(t, res) /\ UNCHANGED ret

\* The frames of clients that know the tokens in use, or none.
ServerFrames == {f \in Frames : f.token \subseteq ServerTokens}

\* The WebSocket sessions and the admin API in the default configuration; the
\* supervisors the sessions start are created and cancelled but do not run.
NextAuth ==
    \/ Calls
    \/ serve
    \/ \E s \in Sessions, f \in ServerFrames : handle_websocket(s, f)
    \/ \E s \in Sessions : message_dispatcher(s)
    \/ \E s \in Sessions : cleanup_connection(s)

SpecAuth == InitDefault /\ [][NextAuth]_vars

-----------------------------------------------------------------------------
\* The auth frame of a reverse client that knows the reverse token.
ReverseFrame == [kind |-> "auth", token |-> Some(ReverseToken), reverse |-> "true"]

\* Reverse clients of one token join and leave while SOCKS connections arrive
\* on the token's port and are assigned to the clients.
NextRR ==
    \/ \E res \in AddResults :
         add_reverse_token(Some(ReverseToken), None, None, None, res) /\ UNCHANGED ret
    \/ serve
    \/ \E s \in Sessions : handle_websocket(s, ReverseFrame)
    \/ \E s \in Sessions : cleanup_connection(s)
    \/ \E k \in 1..MaxTasks : run_socks_server(k)
    \/ \E k \in 1..MaxTasks, h \in 1..MaxHandlers : socks_accept(k, h)
    \/ \E h \in 1..MaxHandlers : handle_socks_request(h)
    \/ \E h \in 1..MaxHandlers : handle_socks_request_found(h)
    \/ \E h \in 1..MaxHandlers : handle_socks_request_ends(h)

SpecRR == InitDefault /\ [][NextRR]_vars

\* The port the admin asks for.
ReversePort == 1

\* The whole life of a reverse token: it is added on a port of the admin's
\* choice and removed while its clients join and leave, its supervisor runs,
\* accepts SOCKS connections and is cancelled, and the SocketManager cleans up.
ServerSteps ==
    \/ \E res \in AddResults :
         add_reverse_token(Some(ReverseToken), Some(ReversePort), None, None, res)
         /\ UNCHANGED ret
    \/ \E res \in BOOLEAN : remove_token(ReverseToken, res) /\ UNCHANGED ret
    \/ serve
    \/ \E s \in Sessions : handle_websocket(s, ReverseFrame)
    \/ \E s \in Sessions : cleanup_connection(s)
    \/ \E k \in 1..MaxTasks : run_socks_server(k)
    \/ \E k \in 1..MaxTasks : run_socks_server_bind_error(k)
    \/ \E k \in 1..MaxTasks, h \in 1..MaxHandlers : socks_accept(k, h)
    \/ \E k \in 1..MaxTasks : run_socks_server_cancelled(k)
    \/ \E k \in 1..MaxTasks : run_socks_server_finally(k)
    \/ \E h \in 1..MaxHandlers : handle_socks_request(h)
    \/ \E h \in 1..MaxHandlers : handle_socks_request_found(h)
    \/ \E h \in 1..MaxHandlers : handle_socks_request_ends(h)
    \/ \E port \in PoolPorts : cleanup_socket(port)

\* With socks_wait_client=False the supervisor is started when the token is
\* added, by the task add_reverse_token creates.
NextServer ==
    \/ ServerSteps
    \/ pending_task_runs

SpecServer == Init /\ [][NextServer]_vars

\* The event loop runs every task that is ready: a supervisor that was
\* cancelled or whose handlers are gathered, a handler that was just spawned
\* or that was cancelled, and a cleanup whose sleep is over.
FairServer ==
    /\ \A k \in 1..MaxTasks : WF_vars(run_socks_server_cancelled(k))
    /\ \A k \in 1..MaxTasks : WF_vars(run_socks_server_finally(k))
    /\ \A h \in 1..MaxHandlers : WF_vars(handle_socks_request(h))
    /\ \A h \in 1..MaxHandlers :
          WF_vars(handle_socks_request_ends(h) /\ handler[h].cancelled)
    /\ \A port \in PoolPorts : WF_vars(cleanup_socket(port))

\* The default configuration under a fair event loop.
SpecServerFair == InitDefault /\ [][ServerSteps]_vars /\ FairServer

\* The SocketManager alone, under every sequence of calls of its API and
\* expiries of its cleanup timers.
NextSocketManager ==
    \/ \E port \in PoolPorts : sm_get_socket(port)
    \/ \E port \in PoolPorts : sm_release_socket(port)
    \/ \E port \in PoolPorts : cleanup_socket(port)
    \/ sm_close

SpecSocketManager == InitDefault /\ [][NextSocketManager]_vars

\* In either configuration: the token is added before or after serve() and
\* removed, its clients join and leave, and the supervisors that are started
\* run until they are cancelled.
NextStart ==
    \/ \E res \in AddResults :
         add_reverse_token(Some(ReverseToken), Some(ReversePort), None, None, res)
         /\ UNCHANGED ret
    \/ \E res \in BOOLEAN : remove_token(ReverseToken, res) /\ UNCHANGED ret
    \/ serve
    \/ pending_task_runs
    \/ \E s \in Sessions : handle_websocket(s, ReverseFrame)
    \/ \E s \in Sessions : cleanup_connection(s)
    \/ \E k \in 1..MaxTasks : run_socks_server(k)
    \/ \E k \in 1..MaxTasks : run_socks_server_cancelled(k)

SpecStart == Init /\ [][NextStart]_vars

\* The server in the default configuration until and after serve() is
\* cancelled; no WebSocket client connects once the listener is down.
NextShutdown ==
    \/ \E res \in AddResults :
         add_reverse_token(Some(ReverseToken), Some(ReversePort), None, None, res)
         /\ UNCHANGED ret
    \/ \E res \in BOOLEAN : remove_token(ReverseToken, res) /\ UNCHANGED ret
    \/ serve
    \/ serve_cancelled
    \/ \E s \in Sessions : ~stopped /\ handle_websocket(s, ReverseFrame)
    \/ \E s \in Sessions : cleanup_connection(s)
    \/ \E k \in 1..MaxTasks : run_socks_server(k)
    \/ \E k \in 1..MaxTasks : run_socks_server_cancelled(k)
    \/ \E port \in PoolPorts : cleanup_socket(port)

SpecShutdown == InitDefault /\ [][NextShutdown]_vars

\* Two forward tokens handed to different clients: the tokens are added and
\* removed while the server runs, forward clients authenticate with either,
\* send connect frames and disconnect.
ForwardTokens == {"t2", "t3"}
ForwardFrames ==
    {[kind |-> "auth", token |-> Some(t), reverse |-> "false"] : t \in ForwardTokens}

NextForward ==
    \/ \E t \in ForwardTokens, res \in AddResults :
         add_forward_token(Some(t), res) /\ UNCHANGED ret
    \/ \E t \in ForwardTokens, res \in BOOLEAN : remove_token(t, res) /\ UNCHANGED ret
    \/ serve
    \/ \E s \in Sessions, f \in ForwardFrames : handle_websocket(s, f)
    \/ \E s \in Sessions : message_dispatcher(s)
    \/ \E s \in Sessions : cleanup_connection(s)

SpecForward == InitDefault /\ [][NextForward]_vars

-----------------------------------------------------------------------------
\* The reverse tokens that own port p.
Owners(p) == {t \in DOMAIN tokens : tokens[t] = p}

\* C1: every port of the pool is either free in the PortPool or assigned to
\* exactly one reverse token: never both, never neither, never two tokens.
C1_PortFreeOrOwnedOnce ==
    \A p \in PoolPorts :
        \/ p \in free /\ Owners(p) = {}
        \/ p \notin free /\ Cardinality(Owners(p)) = 1

\* C1 witness: a token was removed while another reverse token keeps its port.
C1_Witness ==
    /\ ret.op = "remove" /\ ret.res[1] = Some("True")
    /\ ret.token \cap DOMAIN tokens = {}
    /\ DOMAIN tokens # {} /\ free # {} /\ free # PoolPorts

\* C2: no token is at once a reverse token and a forward token.
C2_TokenKindsDisjoint == DOMAIN tokens \cap forward_tokens = {}

\* The step is the admin call add_reverse_token(t, ...) that ret' records.
AddReverseCalled(t) ==
    /\ ret'.op = "add_reverse" /\ ret'.token = Some(t)
    /\ \E port \in PortArgs, username \in UserArgs, password \in PassArgs :
          add_reverse_token(Some(t), port, username, password, ret'.res)

\* C3: add_reverse_token called again with the token the previous call
\* registered, whatever port or credentials it passes, returns the same
\* (token, port) and changes nothing: no port leaves the pool and no registry
\* or client map changes.
C3_AddReverseTwiceSame ==
    [][\A t \in Tokens :
         (ret.op = "add_reverse" /\ ret.res[1] = Some(t) /\ AddReverseCalled(t)) =>
            /\ ret'.res = ret.res
            /\ UNCHANGED <<registry, client_maps, sess>>]_vars

\* C3 witness: a call found its token registered and returned the token's port.
C3_Witness ==
    /\ ret.op = "add_reverse" /\ ret.known
    /\ ret.res[1] # None /\ ret.res[2] = Some(tokens[The(ret.res[1])])

\* The step is the admin call remove_token(t) that ret' records.
RemoveCalled(t) ==
    /\ ret'.op = "remove" /\ ret'.token = Some(t)
    /\ remove_token(t, ret'.res[1] = Some("True"))

\* C4: remove_token(t) right after remove_token(t), with no add in between,
\* returns false; remove_token of a token in neither set returns false and
\* changes nothing.
C4_RemoveTwiceFalse ==
    [][\A t \in Tokens :
         RemoveCalled(t) =>
           /\ (ret.op = "remove" /\ ret.token = Some(t)) => ret'.res[1] = Some("False")
           /\ (t \notin DOMAIN tokens /\ t \notin forward_tokens) =>
                 /\ ret'.res[1] = Some("False")
                 /\ UNCHANGED <<registry, client_maps, sess>>]_vars

\* C5: add_reverse_token with a new token returns (None, None) when the pool
\* has no free port or the requested port is not free, and then the token map,
\* the token locks, the SOCKS auth map, the pending tokens and the PortPool
\* are unchanged.
C5_AddReverseRefusedNoChange ==
    [][\A t \in Tokens :
         (t \notin DOMAIN tokens /\ ret'.op = "add_reverse" /\ ret'.token = Some(t)) =>
           \A port \in PortArgs :
             (free = {} \/ (port # None /\ The(port) \notin free)) =>
               \A username \in UserArgs, password \in PassArgs :
                 add_reverse_token(Some(t), port, username, password, ret'.res) =>
                   /\ ret'.res = <<None, None>>
                   /\ UNCHANGED registry]_vars

\* C5 witness: a call for a new token was refused while the pool was exhausted.
C5_Witness ==
    /\ ret.op = "add_reverse" /\ ret.res = <<None, None>>
    /\ free = {} /\ ret.token # None /\ ret.token \cap DOMAIN tokens = {}

\* The client registries list session s.
Registered(s) ==
    \/ s \in clients
    \/ s \in forward_clients
    \/ \E t \in DOMAIN token_clients : s \in Range(token_clients[t])

\* The auth frame names a token that is valid now for the kind it asks for.
ValidAuth(f) ==
    /\ f.token # None
    /\ \/ EqTrue(f.reverse) /\ The(f.token) \in DOMAIN tokens
       \/ EqFalse(f.reverse) /\ The(f.token) \in forward_tokens

\* C7: a session gets a client id or enters a client map only in the step that
\* judges its auth frame, and only if the frame has reverse == true with a
\* token in the reverse token map (it becomes a reverse client) or
\* reverse == false with a token in the forward token set (a forward client);
\* for every other auth frame the server sends auth_response success=false,
\* closes with 1008 "Invalid token" and registers nothing.
C7_AuthOnlyWithValidToken ==
    [][\A s \in Sessions :
         /\ ((sess[s].cid = 0 /\ sess'[s].cid # 0) \/ (~Registered(s) /\ Registered(s)')) =>
               \E f \in AuthFrames :
                  /\ handle_websocket(s, f)
                  /\ ValidAuth(f)
                  /\ s \in clients' =>
                        EqTrue(f.reverse) /\ The(f.token) \in DOMAIN tokens
                  /\ s \in forward_clients' =>
                        EqFalse(f.reverse) /\ The(f.token) \in forward_tokens
         /\ \A f \in AuthFrames :
               (handle_websocket(s, f) /\ ~ValidAuth(f)) =>
                  /\ sess'[s].out = <<"auth_response false", "close 1008 Invalid token">>
                  /\ sess'[s].cid = 0
                  /\ ~Registered(s)'
                  /\ UNCHANGED client_maps]_vars

\* C7 witness: a reverse client and a forward client are registered and a
\* third session was refused with "Invalid token".
C7_Witness ==
    \E a, b, c \in Sessions :
        /\ sess[a].kind = "reverse" /\ a \in clients /\ sess[a].cid = a
        /\ sess[b].kind = "forward" /\ b \in forward_clients /\ sess[b].cid = b
        /\ sess[c].out = <<"auth_response false", "close 1008 Invalid token">>

\* C8: when the first message of a session is not a JSON auth message (a JSON
\* object of another type, a JSON value that is not an object, or a frame that
\* is not valid JSON) the server closes with 1008 "Invalid auth message",
\* allocates no client id and leaves the client registries and the supervisor
\* tasks unchanged.
C8_NonAuthFirstMessageClosed ==
    [][\A s \in Sessions : \A f \in Frames \ AuthFrames :
         handle_websocket(s, f) =>
            /\ sess'[s].out = <<"close 1008 Invalid auth message">>
            /\ sess'[s].cid = 0
            /\ UNCHANGED client_maps]_vars

\* C9: a session for which the dispatcher has spawned a connect handler
\* authenticated as a forward client.
C9_ConnectOnlyOnForwardSession ==
    \A s \in Sessions : sess[s].conn = "spawned" => sess[s].kind = "forward"

\* C9 witness: a "connect" frame was ignored on a reverse session and one was
\* served on a forward session.
C9_Witness ==
    \E a, b \in Sessions :
        /\ sess[a].kind = "reverse" /\ sess[a].conn = "ignored"
        /\ sess[b].kind = "forward" /\ sess[b].conn = "spawned"

\* How often x occurs in the sequence sq.
Count(sq, x) == Cardinality({i \in DOMAIN sq : sq[i] = x})

\* C6: while the client list of a reverse token is unchanged, the i-th select
\* returns the client at position (cursor + i) mod k of the list, where cursor
\* is the round-robin index when the list last changed; so every client is
\* chosen floor(m/k) or ceil(m/k) times in m selects, the first select of a
\* fresh cursor (0) returns the client at index 1 mod k, and with three
\* clients A, B, C registered in that order five selects return B, C, A, B, C.
C6_RoundRobin ==
    \A t \in DOMAIN token_clients :
        LET cl == token_clients[t]
            k == Len(cl)
            start == selects[t].start
            picks == selects[t].picks
            m == Len(picks)
        IN  k >= 1 =>
              /\ \A i \in 1..m : picks[i] = cl[((start + i) % k) + 1]
              /\ \A c \in Range(cl) :
                    Count(picks, c) \in {m \div k, (m + k - 1) \div k}
              /\ (start = 0 /\ m >= 1) => picks[1] = cl[(1 % k) + 1]
              /\ (start = 0 /\ k = 3 /\ m = 5) =>
                    picks = <<cl[2], cl[3], cl[1], cl[2], cl[3]>>

\* C6 witness: clients 1, 2, 3 joined in that order and five selects returned
\* 2, 3, 1, 2, 3.
C6_Witness ==
    /\ ReverseToken \in DOMAIN token_clients
    /\ token_clients[ReverseToken] = <<1, 2, 3>>
    /\ selects[ReverseToken] = [start |-> 0, picks |-> <<2, 3, 1, 2, 3>>]

\* The step is remove_token(t) on a reverse token that has connected clients.
RemoveWithClients(t) ==
    /\ t \in DOMAIN tokens
    /\ t \in DOMAIN token_clients
    /\ remove_token(t, TRUE)

\* release_socket has acted on the port: one reference less, and with none
\* left the socket is in its grace window with a cleanup pending.
Released(port) ==
    /\ port \in DOMAIN sockets /\ port \in DOMAIN sockets'
    /\ IF sockets[port].refs > 1
       THEN sockets'[port].refs = sockets[port].refs - 1 /\ timers' = timers
       ELSE /\ sockets'[port].refs = 0 /\ sockets'[port].ts > 0
            /\ timers'[port] = timers[port] + 1

\* The safety part of C10: what the remove_token step and the steps of the
\* cancelled supervisor do.
C10_Safety ==
    [][/\ \A t \in Tokens :
            RemoveWithClients(t) =>
              LET port == tokens[t]
                  cids == Range(token_clients[t])
              IN  /\ cids # {}
                  /\ \A s \in cids :
                        /\ sess[s].pc = "running"
                        /\ sess'[s].out = Append(sess[s].out, "close 1000 Token removed")
                  /\ clients' \cap cids = {}
                  /\ t \notin DOMAIN token_clients'
                  /\ t \notin DOMAIN tokens'
                  /\ port \in free'
                  /\ port \in DOMAIN socks_tasks
                  /\ port \notin DOMAIN socks_tasks'
                  /\ LET k == socks_tasks[port] IN
                       \/ k \notin DOMAIN task'
                       \/ task'[k].cancelled
       /\ \A k \in DOMAIN task :
            /\ run_socks_server_cancelled(k) =>
                  /\ \A h \in HandlersOf(k) :
                        h \in DOMAIN handler' /\ handler'[h].cancelled
                  /\ HandlersOf(k) # {} => UNCHANGED <<sockets, timers>>
            /\ (task[k].cancelled /\ k \notin DOMAIN task') =>
                  /\ HandlersOf(k) = {}
                  /\ Released(task[k].port)]_vars

\* C10: remove_token(T) on a reverse token with connected clients closes every
\* WebSocket of T with 1000 "Token removed", evicts the client records, puts
\* T's port back in the pool, forgets T's supervisor and cancels it; the
\* cancelled supervisor cancels every handler it spawned, releases the listen
\* socket only when all of them have ended, and does release it; a cancelled
\* handler ends.
C10_RemoveReverseWithClients ==
    /\ C10_Safety
    /\ \A k \in 1..MaxTasks :
          (k \in DOMAIN task /\ task[k].cancelled) ~> (k \notin DOMAIN task)
    /\ \A h \in 1..MaxHandlers :
          (h \in DOMAIN handler /\ handler[h].cancelled) ~> (h \notin DOMAIN handler)

\* C10 witness: the token was removed, its client was sent the close, its port
\* is free again, and its cancelled supervisor waits for a cancelled handler.
C10_Witness ==
    /\ ReverseToken \notin DOMAIN tokens
    /\ ReversePort \in free
    /\ \E s \in Sessions :
          Len(sess[s].out) = 2 /\ sess[s].out[2] = "close 1000 Token removed"
    /\ \E k \in DOMAIN task :
          /\ task[k].cancelled /\ task[k].pc = "draining"
          /\ \E h \in HandlersOf(k) : handler[h].cancelled

\* Every socket is closed at most once, and no socket of the map is closed.
ClosedOnce ==
    /\ \A i, j \in DOMAIN closed : closed[i] = closed[j] => i = j
    /\ \A port \in DOMAIN sockets : sockets[port].sock \notin Range(closed)

C12_ReacquireInGrace ==
    [][\A port \in PoolPorts :
         /\ (StillInGrace(port) /\ sm_get_socket(port)) =>
               /\ sockets'[port].sock = sockets[port].sock
               /\ sockets'[port].refs > 0
               /\ closed' = closed
         /\ (port \in DOMAIN sockets /\ sockets[port].refs > 0 /\ cleanup_socket(port)) =>
               UNCHANGED <<sockets, closed>>]_vars

\* C12 witness: the first socket was acquired again in its grace window, the
\* cleanup of the release has expired, and the socket is open with refs > 0.
C12_Witness ==
    \E port \in DOMAIN sockets :
        /\ sockets[port].sock = 1 /\ sockets[port].refs > 0 /\ sockets[port].ts > 0
        /\ timers[port] = 0
        /\ closed = <<>>

\* C13: the listen socket a running supervisor acquired and has not released
\* is not closed.
C13_HeldSocketNotClosed ==
    \A k \in DOMAIN task :
        task[k].pc \in {"accepting", "draining"} => task[k].sock \notin Range(closed)

\* C17: the refs of every entry is >= 0.
C17_RefsNotNegative ==
    \A port \in DOMAIN sockets : sockets[port].refs >= 0

\* C17 witness: release_socket was just called on an entry already in grace:
\* the entry has refs = 0 and two cleanups are pending.
C17_Witness ==
    /\ ret.op = "release_socket" /\ ret.known
    /\ \E port \in DOMAIN sockets :
          /\ ret.res[2] = Some(port)
          /\ sockets[port].refs = 0 /\ timers[port] = 2

\* C18: every entry is active (refs > 0 and timestamp 0) or in grace
\* (refs = 0 and timestamp > 0).
C18_ActiveOrGrace ==
    \A port \in DOMAIN sockets :
        \/ sockets[port].refs > 0 /\ sockets[port].ts = 0
        \/ sockets[port].refs = 0 /\ sockets[port].ts > 0

\* C19: a cleanup timer closes the socket only if it is the timer of the most
\* recent release of the port, that is, the only one pending: an older timer
\* expires before the grace period of the latest release is over.
C19_FullGraceAfterLastRelease ==
    [][\A port \in PoolPorts :
         (cleanup_socket(port) /\ port \in DOMAIN sockets /\ port \notin DOMAIN sockets') =>
            timers[port] = 1]_vars

\* The step creates the supervisor task k.
Started(k) == k \notin DOMAIN task /\ k \in DOMAIN task'

\* The step is the successful authentication of a client with token t.
Authenticates(t) ==
    \E s \in Sessions :
        /\ sess[s].pc = "idle" /\ sess'[s].pc = "running"
        /\ sess'[s].kind = "reverse" /\ sess'[s].token = Some(t)

\* C14: with socks_wait_client=true a supervisor is created only in the step
\* in which a client authenticates with the supervisor's token, for the
\* token's port.  With socks_wait_client=false, add_reverse_token with the
\* loop running creates the task that starts the supervisor, that task starts
\* it for a token that is still registered, and serve() starts one for every
\* token added before it; so once the loop runs every reverse token has a
\* supervisor for its port or the task that will start it.
C14_SupervisorStart ==
    /\ [](( ~socks_wait_client /\ loop) =>
            \A t \in DOMAIN tokens :
                tokens[t] \in DOMAIN socks_tasks \/ t \in Range(pending_tasks))
    /\ [][/\ socks_wait_client =>
              \A k \in 1..MaxTasks :
                 Started(k) =>
                    /\ Authenticates(task'[k].token)
                    /\ task'[k].token \in DOMAIN tokens
                    /\ task'[k].port = tokens[task'[k].token]
          /\ ~socks_wait_client =>
              /\ \A t \in Tokens :
                    (loop /\ t \notin DOMAIN tokens /\ t \in DOMAIN tokens') =>
                        pending_tasks' = Append(pending_tasks, t)
              /\ (pending_tasks # <<>> /\ pending_tasks' = Tail(pending_tasks)
                    /\ Head(pending_tasks) \in DOMAIN tokens) =>
                        /\ tokens[Head(pending_tasks)] \in DOMAIN socks_tasks'
                        /\ task'[socks_tasks'[tokens[Head(pending_tasks)]]].port
                              = tokens[Head(pending_tasks)]
              /\ (~loop /\ loop') =>
                    \A t \in DOMAIN tokens :
                        /\ tokens[t] \in DOMAIN socks_tasks'
                        /\ task'[socks_tasks'[tokens[t]]].token = t]_vars

\* C14 witness: with socks_wait_client=false the token's supervisor runs and
\* no WebSocket client has connected yet.
C14_Witness ==
    /\ ~socks_wait_client /\ loop
    /\ ReverseToken \in DOMAIN tokens
    /\ tokens[ReverseToken] \in DOMAIN socks_tasks
    /\ task[socks_tasks[tokens[ReverseToken]]].pc = "accepting"
    /\ \A s \in Sessions : sess[s].pc = "idle"

\* C15: a SOCKS connection whose handler finds no client entry for its token
\* is held in the wait loop and, while it is held or not yet looked at, is not
\* handed to the relay; when a poll finds a client the request goes to the
\* relay with the WebSocket round-robin selects; when the 10 s are over
\* without that, the request is refused with reply 3 and the handler ends.
C15_WaitForClient ==
    /\ [](\A h \in DOMAIN handler :
             handler[h].pc \in {"spawned", "wait"} =>
                replies[h] = "none" /\ handler[h].ws = 0)
    /\ [][\A h \in DOMAIN handler :
            LET t == handler[h].token IN
            /\ (handler[h].pc = "spawned" /\ ~handler[h].cancelled
                   /\ t \notin DOMAIN token_clients /\ handle_socks_request(h)) =>
                  (h \in DOMAIN handler' /\ handler'[h].pc = "wait")
            /\ handle_socks_request_found(h) =>
                  LET cl == token_clients[t] IN
                  /\ cl # <<>>
                  /\ handler'[h].pc = "relay"
                  /\ replies'[h] = "relay"
                  /\ handler'[h].ws = cl[((IndexOf(t) + 1) % Len(cl)) + 1]
            /\ (handler[h].pc = "wait" /\ ~handler[h].cancelled
                   /\ h \notin DOMAIN handler') =>
                  replies'[h] = "refused 3"]_vars

\* C15 witness: a handler that waited for a client has ended and its
\* connection was refused with reply 3.
C15_Witness ==
    \E h \in 1..MaxHandlers :
        /\ h \notin DOMAIN handler
        /\ replies[h] = "refused 3"

\* C16: a session that was authenticated and has ended is in no client
\* registry, and a token with no client left has no cursor entry.
C16_CleanupEvictsClient ==
    /\ \A s \in Sessions :
          (sess[s].pc = "done" /\ sess[s].cid # 0) => ~Registered(s)
    /\ \A t \in DOMAIN token_indexes : t \in DOMAIN token_clients

\* C20: the round-robin cursor of a token with a non-empty client list is
\* less than the length of the list.
C20_CursorInRange ==
    \A t \in DOMAIN token_clients :
        token_clients[t] # <<>> => IndexOf(t) < Len(token_clients[t])

\* C21: the cleanup of a session, whatever ended it, leaves the supervisor
\* tasks, the supervisor-task map, the token-to-port map and the sockets of
\* the SocketManager with their reference counts as they were; so the
\* supervisor of a token whose last client disconnects goes on accepting and
\* its listen socket stays referenced.
C21_CleanupKeepsSupervisor ==
    [][\A s \in Sessions :
         cleanup_connection(s) =>
            /\ UNCHANGED <<task, socks_tasks, tokens, sockets, timers, closed>>
            /\ \A t \in DOMAIN tokens :
                  (tokens[t] \in DOMAIN socks_tasks
                     /\ task[socks_tasks[tokens[t]]].pc = "accepting"
                     /\ ~task[socks_tasks[tokens[t]]].cancelled) =>
                       /\ tokens'[t] \in DOMAIN socks_tasks'
                       /\ task'[socks_tasks'[tokens'[t]]].pc = "accepting"
                       /\ ~task'[socks_tasks'[tokens'[t]]].cancelled
                       /\ sockets'[tokens'[t]].refs = sockets[tokens[t]].refs]_vars

\* C21 witness: the only client of the token has disconnected (nothing closed
\* it from the server's side), the token has no client entry, and its
\* supervisor is accepting on a socket that is referenced.
C21_Witness ==
    /\ ReverseToken \in DOMAIN tokens
    /\ ReverseToken \notin DOMAIN token_clients
    /\ sess[1].pc = "done" /\ sess[1].kind = "reverse"
    /\ sess[1].out = <<"auth_response true">>
    /\ sess[2].pc = "idle"
    /\ tokens[ReverseToken] \in DOMAIN socks_tasks
    /\ LET k == socks_tasks[tokens[ReverseToken]] IN
         /\ task[k].pc = "accepting" /\ ~task[k].cancelled
         /\ tokens[ReverseToken] \in DOMAIN sockets
         /\ sockets[tokens[ReverseToken]].refs > 0
         /\ sockets[tokens[ReverseToken]].sock = task[k].sock

\* C22: in the step in which a reverse client authenticates with token t, and
\* so afterwards, the supervisor task registered for t's port is one that is
\* about to accept or is accepting: it has not been cancelled and has not
\* ended, even if an earlier supervisor of the port ended on its own.
C22_SupervisorRunsAfterAuth ==
    [][\A t \in Tokens :
         Authenticates(t) =>
            /\ tokens[t] \in DOMAIN socks_tasks'
            /\ LET k == socks_tasks'[tokens[t]] IN
                 /\ k \in DOMAIN task'
                 /\ task'[k].pc \in {"created", "accepting"}
                 /\ ~task'[k].cancelled
                 /\ task'[k].port = tokens[t]]_vars

\* C23: when serve() is cancelled, every supervisor task is cancelled, every
\* pending cleanup timer is cancelled, every socket of the SocketManager is
\* closed and its map is empty.
C23_ShutdownStopsEverything ==
    [][serve_cancelled =>
          /\ \A k \in DOMAIN task :
                task[k].pc # "done" => (k \notin DOMAIN task' \/ task'[k].cancelled)
          /\ \A port \in PoolPorts : timers'[port] = 0
          /\ \A port \in DOMAIN sockets : sockets[port].sock \in Range(closed')
          /\ sockets' = <<>>]_vars

\* The step runs a section "async with self._token_locks[t]": the registration
\* of a reverse client with its supervisor start check in _handle_websocket,
\* the select of _get_next_websocket, or _handle_pending_token.
LockTaken(t) ==
    \/ \E s \in Sessions, f \in AuthFrames :
          f.token = Some(t) /\ ReverseAuthOk(f) /\ handle_websocket(s, f)
    \/ \E h \in DOMAIN handler :
          /\ handler[h].token = t /\ ~handler[h].cancelled
          /\ handle_socks_request(h) \/ handle_socks_request_found(h)
    \/ ~socks_wait_client /\ pending_tasks # <<>> /\ Head(pending_tasks) = t
          /\ pending_task_runs
    \/ ~socks_wait_client /\ t \in Range(pending_tokens) /\ serve

\* The step changes the client list or the round-robin cursor of token t, or
\* starts a supervisor for it.
Writes(t) ==
    \/ (t \in DOMAIN token_clients) # (t \in DOMAIN token_clients')
    \/ t \in DOMAIN token_clients /\ t \in DOMAIN token_clients'
          /\ token_clients'[t] # token_clients[t]
    \/ (t \in DOMAIN token_indexes) # (t \in DOMAIN token_indexes')
    \/ t \in DOMAIN token_indexes /\ t \in DOMAIN token_indexes'
          /\ token_indexes'[t] # token_indexes[t]
    \/ \E k \in 1..MaxTasks : Started(k) /\ task'[k].token = t

\* C24: every step that changes a reverse token's client list or cursor, or
\* starts its supervisor, is a step that holds the token's lock.
C24_WritesUnderLock ==
    [][\A t \in Tokens : Writes(t) => LockTaken(t)]_vars

\* C25: remove_token(F1) on a forward token leaves every forward client that
\* authenticated with another forward token, one that is still valid, in the
\* forward client map and schedules no close of its WebSocket.
C25_RemoveForwardEvictsOwnClients ==
    [][\A t \in Tokens :
         (t \in forward_tokens /\ t \notin DOMAIN tokens /\ remove_token(t, TRUE)) =>
            \A s \in forward_clients :
               (sess[s].pc = "running" /\ sess[s].token # Some(t)
                  /\ sess[s].token \subseteq forward_tokens') =>
                    /\ s \in forward_clients'
                    /\ sess'[s].out = sess[s].out]_vars

\* C26: every token with an entry in the token-to-clients map has at least
\* one client in its list and is a reverse token of the registry; and a SOCKS
\* handler that finds an entry for its token, at its start or at a poll of
\* its wait loop, is given a client by the select of the same step: its
\* connection goes to the relay and is not refused.
C26_EntryMeansClient ==
    /\ [](\A t \in DOMAIN token_clients :
             token_clients[t] # <<>> /\ t \in DOMAIN tokens /\ t \in token_locks)
    /\ [][\A h \in DOMAIN handler :
            (~handler[h].cancelled /\ handler[h].token \in DOMAIN token_clients
               /\ handler[h].pc \in {"spawned", "wait"}
               /\ (handle_socks_request(h) \/ handle_socks_request_found(h))) =>
                  /\ h \in DOMAIN handler'
                  /\ handler'[h].pc = "relay"
                  /\ handler'[h].ws \in Range(token_clients[handler[h].token])
                  /\ replies'[h] = "relay"]_vars

\* C26 witness: the first client of the token has left and the second is
\* attached; a handler found the token's entry and was given that client.
C26_Witness ==
    /\ ReverseToken \in DOMAIN token_clients
    /\ token_clients[ReverseToken] = <<2>>
    /\ sess[1].pc = "done" /\ sess[1].kind = "reverse"
    /\ \E h \in DOMAIN handler :
          handler[h].pc = "relay" /\ handler[h].ws = 2 /\ replies[h] = "relay"

====
